---- MODULE Spec2Model ----
(***************************************************************************)
(* train_model of overfit_small_dataset.ipynb: the epoch/phase/batch loop  *)
(* with best-weights tracking, checkpointing and history bookkeeping.      *)
(*                                                                         *)
(* Abstractions of the external collaborators:                             *)
(*   - the live model's state_dict is a natural number; every forward      *)
(*     pass in train mode followed by backward + optimizer.step() yields a *)
(*     fresh value (the count of optimizer steps taken);                   *)
(*   - the forward pass predicts, for every sample, either its true class  *)
(*     or the next class, chosen nondeterministically;                     *)
(*   - the criterion's loss of a batch is its number of misclassified      *)
(*     samples divided by the batch size (so loss * batch size is the      *)
(*     count of misclassified samples);                                    *)
(*   - real numbers are pairs <<numerator, denominator>>.                  *)
(***************************************************************************)
EXTENDS Integers, Sequences, FiniteSets, TLC

\* ------------------------------------------------------------------ bounds

\* the most epochs a call runs, and the most batches a dataloader holds
\* beyond the iteration cap
MaxEpochs == 2
MaxOverCap == 1

\* ------------------------------------------------------- program constants

NumClasses == 10
IterCap == 10
InitialState == 0

\* start_epoch: the default of line 48, and 0
StartEpochs == {0, 1}
\* len(dataloaders[phase].dataset) and batch_size of the small datasets
DatasetSizes == 0..2
BatchSizes == 1..2
\* variant: the phases in the other order
PhasesSwapped == <<"val", "train">>
\* line 78: for phase in ['train', 'val']
Phases == <<"train", "val">>
PhaseSet == {"train", "val"}

\* ---------------------------------------------------------------- helpers

Min(a, b) == IF a < b THEN a ELSE b
Max(a, b) == IF a > b THEN a ELSE b

\* a / b as a pair; comparisons by cross-multiplication (denominators > 0)
Rat(a, b) == <<a, b>>
RatGt(x, y) == x[1] * y[2] > y[1] * x[2]
RatGe(x, y) == x[1] * y[2] >= y[1] * x[2]
RatEq(x, y) == x[1] * y[2] = y[1] * x[2]

\* variants: num_epochs as an inclusive end, and as a count of epochs
EpochRangeInclusive(s, n) == [k \in 1..Max(n - s + 1, 0) |-> s + k - 1]
EpochRangeCount(s, n) == [k \in 1..Max(n, 0) |-> s + k - 1]
\* line 75: range(start_epoch, num_epochs)
EpochRange(s, n) == [k \in 1..Max(n - s, 0) |-> s + k - 1]

\* DataLoader(dataset, shuffle=False, batch_size=b): number of batches and
\* the dataset positions of batch k (the last batch may be short)
NumBatches(size, b) == (size + b - 1) \div b
BatchSamples(size, b, k) == [j \in 1..(Min(k * b, size) - (k - 1) * b) |-> (k - 1) * b + j]

\* torch.max(labels, 1)[1] of dataset position j
Label(j) == j % NumClasses
WrongClass(c) == (c + 1) % NumClasses


\* ------------------------------------------------ the metrics collaborators

\* get_acc_f1_precision_recall(pred_classes, ground_truths): accuracy is the
\* fraction of positions where predicted equals ground truth; the macro
\* averaged scores are kept as uninterpreted terms over the two arrays
EqualCount(pred, truth) == Cardinality({k \in 1..Len(pred) : pred[k] = truth[k]})
get_acc_f1_precision_recall(pred, truth) ==
    [accuracy |-> Rat(EqualCount(pred, truth), Len(pred)),
     f1 |-> <<"f1", pred, truth>>,
     precision |-> <<"precision", pred, truth>>,
     recall |-> <<"recall", pred, truth>>]

\* sklearn confusion_matrix(ground_truths, pred_classes, labels=0..9), kept
\* sparse: the count of every (truth, predicted) pair that occurs
confusion_matrix(truth, pred) ==
    LET pairs == {<<truth[k], pred[k]>> : k \in 1..Len(truth)}
    IN  [pr \in pairs |-> Cardinality({k \in 1..Len(truth) : <<truth[k], pred[k]>> = pr})]

\* ---------------------------------------------- the checkpoint collaborators

\* utils.checkpoints, called at lines 61, 189 and 192: the session header and
\* one record per call are appended to the history file, and one checkpoint
\* file per call is written, named after the epoch
init_session_history(file) == Append(file, [kind |-> "session"])
save_weights(dir, state, e) == Append(dir, [epoch |-> e, state_dict |-> state])
saved_model_name(e) == <<"model", e>>
write_history(file, record) == Append(file, [kind |-> "epoch"] @@ record)

\* ------------------------------------------------------------------ state

VARIABLES
    start_epoch, num_epochs,      \* the call's parameters
    dsize, batch_size,            \* dataloaders[phase]: dataset size, batch size
    pc,                           \* position in train_model
    epoch_iter,                   \* how many epochs the range iterator has given
    phase_idx,                    \* position in ['train', 'val']
    i,                            \* batches done in this phase
    weights,                      \* model.state_dict() of the live model
    best_model_wts, best_acc,
    running_loss, running_corrects,
    pred_classes, ground_truths,  \* train_/val_ pred_classes, ground_truths
    acc_history, loss_history, f1_score, plot_epoch,
    metrics,                      \* train_/val_ accuracy, f1, precision, recall
    loss_var,                     \* train_loss, val_loss
    confusion,                    \* train_/val_ confusion_matrix
    model_name,
    checkpoints,                  \* files written by save_weights
    history_file,                 \* lines of args.history_path
    events,                       \* observation: order of the steps taken
    last_ops,                     \* observation: calls made for the last batch
    phase_start_wts               \* observation: state_dict at phase start

params == <<start_epoch, num_epochs, dsize, batch_size>>
control == <<pc, epoch_iter, phase_idx, i>>
best == <<best_model_wts, best_acc>>
running == <<running_loss, running_corrects, pred_classes, ground_truths>>
returned == <<acc_history, loss_history, f1_score, plot_epoch>>
locals == <<metrics, loss_var, confusion, model_name>>
files == <<checkpoints, history_file>>
observed == <<events, last_ops, phase_start_wts>>
vars == <<params, control, weights, best, running, returned, locals, files, observed>>

phase == Phases[phase_idx]
\* line 75: the loop variable is the last value the range iterator gave
epoch == EpochRange(start_epoch, num_epochs)[epoch_iter]
\* locals before their first assignment
Unbound == <<>>
NoState == InitialState - 1
NoMetrics == [accuracy |-> Unbound, f1 |-> Unbound, precision |-> Unbound, recall |-> Unbound]
EachPhase(v) == [p \in PhaseSet |-> v]

\* the six history sequences under their names in the source
train_acc_history == acc_history["train"]
val_acc_history == acc_history["val"]
train_loss_history == loss_history["train"]
val_loss_history == loss_history["val"]
train_f1_score == f1_score["train"]
val_f1_score == f1_score["val"]

\* ------------------------------------------------------------------- init

InitCommon ==
    /\ pc = "call"
    /\ epoch_iter = 0 /\ phase_idx = 0 /\ i = 0
    /\ weights = InitialState
    /\ best_model_wts = NoState /\ best_acc = Unbound
    /\ running_loss = 0 /\ running_corrects = 0
    /\ pred_classes = EachPhase(<<>>) /\ ground_truths = EachPhase(<<>>)
    /\ acc_history = EachPhase(<<>>) /\ loss_history = EachPhase(<<>>)
    /\ f1_score = EachPhase(<<>>) /\ plot_epoch = <<>>
    /\ metrics = EachPhase(NoMetrics) /\ loss_var = EachPhase(Unbound)
    /\ confusion = EachPhase(Unbound) /\ model_name = Unbound
    /\ checkpoints = <<>> /\ history_file = <<>>
    /\ events = <<>> /\ last_ops = <<>> /\ phase_start_wts = InitialState

\* several epochs over small datasets
InitEpochs ==
    /\ start_epoch \in StartEpochs
    /\ num_epochs \in 0..(start_epoch + MaxEpochs)
    /\ dsize \in [PhaseSet -> DatasetSizes]
    /\ batch_size \in BatchSizes

\* one epoch in which one dataloader holds about as many batches as the
\* iteration cap
InitCap ==
    /\ start_epoch = 1
    /\ num_epochs = 2
    /\ batch_size = 1
    /\ \E big \in PhaseSet, n \in (IterCap - 1)..(IterCap + MaxOverCap) :
          dsize = [p \in PhaseSet |-> IF p = big THEN n ELSE 1]

Init == InitCommon /\ (InitEpochs \/ InitCap)


\* ---------------------------------------------------------------- actions

\* variant: the failing run removes what it wrote
RaiseRollback ==
    /\ pc' = "aborted"
    /\ checkpoints' = <<>> /\ history_file' = <<>>
    /\ UNCHANGED <<params, epoch_iter, phase_idx, i, weights, best, observed>>
\* an exception leaves train_model: nothing catches it, nothing is undone
Raise ==
    /\ pc' = "aborted"
    /\ UNCHANGED <<params, epoch_iter, phase_idx, i, weights, best, files, observed>>

\* lines 60-73: session header, empty histories, initial best snapshot
Begin ==
    /\ pc = "call"
    /\ history_file' = init_session_history(history_file)
    /\ best_model_wts' = weights
    /\ best_acc' = Rat(0, 1)
    /\ pc' = "epoch_loop"
    /\ UNCHANGED <<params, epoch_iter, phase_idx, i, weights, running,
                   returned, locals, checkpoints, observed>>

\* line 75: the for loop takes the next epoch of the range
NextEpoch ==
    /\ pc = "epoch_loop"
    /\ epoch_iter < Len(EpochRange(start_epoch, num_epochs))
    /\ epoch_iter' = epoch_iter + 1
    /\ phase_idx' = 0
    /\ pc' = "phase_loop"
    /\ UNCHANGED <<params, i, weights, best, running, returned, locals, files, observed>>

\* line 75: the range is exhausted
LoopExit ==
    /\ pc = "epoch_loop"
    /\ epoch_iter >= Len(EpochRange(start_epoch, num_epochs))
    /\ pc' = "ret"
    /\ UNCHANGED <<params, epoch_iter, phase_idx, i, weights, best, running,
                   returned, locals, files, observed>>

\* lines 78-94: the next phase starts with empty lists and zeroed counters
PhaseStart ==
    /\ pc = "phase_loop"
    /\ phase_idx < Len(Phases)
    /\ phase_idx' = phase_idx + 1
    /\ pred_classes' = [pred_classes EXCEPT ![Phases[phase_idx + 1]] = <<>>]
    /\ ground_truths' = [ground_truths EXCEPT ![Phases[phase_idx + 1]] = <<>>]
    /\ running_loss' = 0 /\ running_corrects' = 0
    /\ i' = 0
    /\ pc' = "batch_loop"
    /\ events' = Append(events, <<"start", Phases[phase_idx + 1], epoch>>)
    /\ last_ops' = <<>>
    /\ phase_start_wts' = weights
    /\ UNCHANGED <<params, epoch_iter, weights, best, returned, locals, files>>

\* variant: backward and optimizer.step in every phase
GradEnabledAlways(p) == TRUE
\* lines 106, 115-125: gradients, backward and optimizer.step only in train
GradEnabled(p) == p = "train"

\* variant: no iteration cap
ReachedCapNever(n) == FALSE
\* lines 133-135: i += 1; if i == 10: break
ReachedCap(n) == n = IterCap

\* lines 95-135: one batch of the phase's dataloader
Batch ==
    /\ pc = "batch_loop"
    /\ i < NumBatches(dsize[phase], batch_size)
    /\ LET inputs == BatchSamples(dsize[phase], batch_size, i + 1)
           labels == [j \in 1..Len(inputs) |-> Label(inputs[j])]
       IN  \E right \in [1..Len(inputs) -> BOOLEAN] :
             LET preds == [j \in 1..Len(inputs) |->
                              IF right[j] THEN labels[j] ELSE WrongClass(labels[j])]
                 misses == Cardinality({j \in 1..Len(inputs) : preds[j] # labels[j]})
                 hits == Cardinality({j \in 1..Len(inputs) : preds[j] = labels[j]})
             IN  /\ pred_classes' = [pred_classes EXCEPT ![phase] = @ \o preds]
                 /\ ground_truths' = [ground_truths EXCEPT ![phase] = @ \o labels]
                 /\ running_loss' = running_loss + misses
                 /\ running_corrects' = running_corrects + hits
    /\ weights' = IF GradEnabled(phase) THEN weights + 1 ELSE weights
    /\ last_ops' = <<"zero_grad", "forward">>
                     \o (IF GradEnabled(phase) THEN <<"backward", "step">> ELSE <<>>)
    /\ i' = i + 1
    /\ pc' = IF ReachedCap(i + 1) THEN "stats" ELSE "batch_loop"
    /\ UNCHANGED <<params, epoch_iter, phase_idx, best, returned, locals,
                   files, events, phase_start_wts>>

\* line 95: the dataloader is exhausted
Exhausted ==
    /\ pc = "batch_loop"
    /\ i >= NumBatches(dsize[phase], batch_size)
    /\ pc' = "stats"
    /\ UNCHANGED <<params, epoch_iter, phase_idx, i, weights, best, running,
                   returned, locals, files, observed>>

\* lines 98-125: the forward or backward pass of a batch raises
BatchFail ==
    /\ pc = "batch_loop"
    /\ i < NumBatches(dsize[phase], batch_size)
    /\ Raise
    /\ UNCHANGED <<running, returned, locals>>

\* variant: a tie replaces the snapshot
IsNewBestOrTie(acc, b) == RatGe(acc, b)
\* lines 161-164: deep copy the model if best accuracy
IsNewBest(acc, b) == RatGt(acc, b)

\* lines 137-186: the phase's statistics, metrics and history entries, and
\* for val the best-accuracy snapshot
Stats ==
    /\ pc = "stats"
    /\ dsize[phase] > 0
    /\ LET epoch_loss == Rat(running_loss, dsize[phase])
           epoch_acc == Rat(running_corrects, dsize[phase])
           m == get_acc_f1_precision_recall(pred_classes[phase], ground_truths[phase])
       IN  /\ acc_history' = [acc_history EXCEPT ![phase] = Append(@, epoch_acc)]
           /\ loss_history' = [loss_history EXCEPT ![phase] = Append(@, epoch_loss)]
           /\ metrics' = [metrics EXCEPT ![phase] = m]
           /\ f1_score' = [f1_score EXCEPT ![phase] = Append(@, m.f1)]
           /\ confusion' = [confusion EXCEPT ![phase] =
                               confusion_matrix(ground_truths[phase], pred_classes[phase])]
           /\ loss_var' = [loss_var EXCEPT ![phase] = epoch_loss]
           /\ IF phase = "val" /\ IsNewBest(epoch_acc, best_acc)
                 THEN best_acc' = epoch_acc /\ best_model_wts' = weights
                 ELSE UNCHANGED best
           /\ plot_epoch' = IF phase = "train" THEN Append(plot_epoch, epoch) ELSE plot_epoch
    /\ events' = Append(events, <<"stats", phase, epoch>>)
    /\ pc' = IF phase_idx < Len(Phases) THEN "phase_loop" ELSE "save"
    /\ UNCHANGED <<params, epoch_iter, phase_idx, i, weights, running,
                   model_name, files, last_ops, phase_start_wts>>

\* lines 137-138: division by len(dataset) = 0
StatsZeroDivision ==
    /\ pc = "stats"
    /\ dsize[phase] = 0
    /\ Raise
    /\ UNCHANGED <<running, returned, locals>>

\* lines 147-153, 170-176: the metric computation raises after the accuracy
\* and loss were appended
MetricsFail ==
    /\ pc = "stats"
    /\ dsize[phase] > 0
    /\ acc_history' = [acc_history EXCEPT ![phase] =
                          Append(@, Rat(running_corrects, dsize[phase]))]
    /\ loss_history' = [loss_history EXCEPT ![phase] =
                           Append(@, Rat(running_loss, dsize[phase]))]
    /\ Raise
    /\ UNCHANGED <<running, f1_score, plot_epoch, locals>>

\* line 189: save_weights writes this epoch's checkpoint
SaveWeights ==
    /\ pc = "save"
    /\ checkpoints' = save_weights(checkpoints, weights, epoch)
    /\ model_name' = saved_model_name(epoch)
    /\ events' = Append(events, <<"checkpoint", epoch>>)
    /\ pc' = "write"
    /\ UNCHANGED <<params, epoch_iter, phase_idx, i, weights, best, running,
                   returned, metrics, loss_var, confusion, history_file, last_ops,
                   phase_start_wts>>

SaveFail ==
    /\ pc = "save"
    /\ Raise
    /\ UNCHANGED <<running, returned, locals>>

\* lines 192-207: write_history appends this epoch's record
WriteHistory ==
    /\ pc = "write"
    /\ history_file' = write_history(history_file,
          [model_name |-> model_name,
           train_loss |-> loss_var["train"], val_loss |-> loss_var["val"],
           train_accuracy |-> metrics["train"].accuracy,
           val_accuracy |-> metrics["val"].accuracy,
           train_f1 |-> metrics["train"].f1, val_f1 |-> metrics["val"].f1,
           train_precision |-> metrics["train"].precision,
           val_precision |-> metrics["val"].precision,
           train_recall |-> metrics["train"].recall,
           val_recall |-> metrics["val"].recall,
           train_confusion_matrix |-> confusion["train"],
           val_confusion_matrix |-> confusion["val"]])
    /\ events' = Append(events, <<"history", epoch>>)
    /\ pc' = "epoch_loop"
    /\ UNCHANGED <<params, epoch_iter, phase_idx, i, weights, best, running,
                   returned, locals, checkpoints, last_ops, phase_start_wts>>

WriteFail ==
    /\ pc = "write"
    /\ Raise
    /\ UNCHANGED <<running, returned, locals>>

\* variant: the live model is returned as it is
LoadedStateLive(b, live) == live
\* line 214: model.load_state_dict(best_model_wts)
LoadedState(b, live) == b

\* lines 209-215: load the best weights and return
Return ==
    /\ pc = "ret"
    /\ weights' = LoadedState(best_model_wts, weights)
    /\ pc' = "done"
    /\ UNCHANGED <<params, epoch_iter, phase_idx, i, best, running, returned,
                   locals, files, observed>>

Next ==
    \/ Begin \/ NextEpoch \/ LoopExit \/ PhaseStart
    \/ Batch \/ Exhausted \/ BatchFail
    \/ Stats \/ StatsZeroDivision \/ MetricsFail
    \/ SaveWeights \/ SaveFail \/ WriteHistory \/ WriteFail
    \/ Return

Spec == Init /\ [][Next]_vars


\* the loop is sequential code: a step that can be taken is taken
FairSpec == Spec /\ WF_vars(Next)

\* ----------------------------------------------------------------- claims

Terminated == pc \in {"done", "aborted"}
EpochRecords == SelectSeq(history_file, LAMBDA r : r.kind = "epoch")
ZeroAcc == Rat(0, 1)

\* the k-th step of a run over epochs first, first + 1, ...
StepOfEpoch(e) ==
    <<<<"start", "train", e>>, <<"stats", "train", e>>,
      <<"start", "val", e>>, <<"stats", "val", e>>,
      <<"checkpoint", e>>, <<"history", e>>>>
ExpectedEvent(first, k) == StepOfEpoch(first + ((k - 1) \div 6))[((k - 1) % 6) + 1]
CountEvents(head) == Cardinality({k \in 1..Len(events) : events[k][1] = head})

\* C1: every epoch takes its steps once and in the order train phase, train
\* statistics, val phase, val statistics, checkpoint, history record; no
\* step of the next epoch comes before the history record of this one; and
\* the checkpoints and history records on disk are exactly those steps'.
C1_EpochStepsInOrder ==
    /\ \A k \in 1..Len(events) : events[k] = ExpectedEvent(start_epoch, k)
    /\ Len(checkpoints) = CountEvents("checkpoint")
    /\ Len(EpochRecords) = CountEvents("history")
    /\ \A k \in 1..Len(checkpoints) : checkpoints[k].epoch = start_epoch + k - 1
    /\ \A k \in 1..Len(EpochRecords) : EpochRecords[k].model_name = <<"model", start_epoch + k - 1>>
    /\ pc # "aborted" =>
         \A p \in PhaseSet :
           Len(f1_score[p]) = Cardinality({k \in 1..Len(events) : events[k][1] = "stats" /\ events[k][2] = p})

C1_Witness ==
    /\ pc = "done"
    /\ Len(checkpoints) = 2
    /\ Len(EpochRecords) = 2
    /\ Len(events) = 12

\* a step that ends a val phase with its statistics computed
ValPhaseEnds == pc = "stats" /\ phase = "val" /\ pc' = "save"
NewValAcc == val_acc_history'[Len(val_acc_history')]
ExceedsAllPrevious == \A k \in 1..Len(val_acc_history) : RatGt(NewValAcc, val_acc_history[k])
SnapshotTaken == best_acc' = NewValAcc /\ best_model_wts' = weights
SnapshotKept == best_acc' = best_acc /\ best_model_wts' = best_model_wts

\* C2 as stated: the best snapshot is updated at the end of a val phase if
\* and only if the epoch's validation accuracy strictly exceeds that of all
\* previous epochs.
C2_UpdateIffExceedsPrevious ==
    [][ValPhaseEnds =>
         IF ExceedsAllPrevious THEN SnapshotTaken /\ best_acc' # best_acc ELSE SnapshotKept]_vars

\* C2 amended: the best snapshot is updated at the end of a val phase if and
\* only if the epoch's validation accuracy is strictly positive and strictly
\* exceeds that of all previous epochs; otherwise it is left as it was.
C2_UpdateIffExceedsPreviousAndZero ==
    [][ValPhaseEnds =>
         IF ExceedsAllPrevious /\ RatGt(NewValAcc, ZeroAcc)
            THEN SnapshotTaken /\ best_acc' # best_acc
            ELSE SnapshotKept]_vars

C2_Witness ==
    /\ Len(val_acc_history) = 2
    /\ pc = "save"
    /\ RatGt(val_acc_history[1], ZeroAcc)
    /\ RatGt(val_acc_history[2], val_acc_history[1])
    /\ best_acc = val_acc_history[2]
    /\ best_model_wts = weights

\* the earliest epoch (as an index of the run) with the maximum validation
\* accuracy
IsBestEpoch(b) ==
    /\ \A k \in 1..Len(val_acc_history) : RatGe(val_acc_history[b], val_acc_history[k])
    /\ \A k \in 1..(b - 1) : RatGt(val_acc_history[b], val_acc_history[k])

\* C3 as stated: after at least one epoch the returned model has the
\* weights it had at the end of the earliest epoch of maximum validation
\* accuracy.
C3_ReturnsBestEpochWeights ==
    (pc = "done" /\ Len(val_acc_history) >= 1) =>
        \E b \in 1..Len(val_acc_history) :
            IsBestEpoch(b) /\ weights = checkpoints[b].state_dict

\* C3 amended: after at least one epoch the returned model has the weights
\* it had at the end of the earliest epoch of maximum validation accuracy
\* when that accuracy is positive, and the weights it had at the call when
\* every epoch's validation accuracy is zero.
C3_ReturnsBestEpochWeightsOrInitial ==
    (pc = "done" /\ Len(val_acc_history) >= 1) =>
        \E b \in 1..Len(val_acc_history) :
            /\ IsBestEpoch(b)
            /\ weights = IF RatGt(val_acc_history[b], ZeroAcc)
                            THEN checkpoints[b].state_dict
                            ELSE InitialState

C3_Witness ==
    /\ pc = "done"
    /\ Len(val_acc_history) = 2
    /\ RatGt(val_acc_history[1], val_acc_history[2])
    /\ weights = checkpoints[1].state_dict
    /\ weights # checkpoints[2].state_dict

\* C4: during a val phase every batch runs zero_grad and the forward pass
\* and nothing else, and the model state stays what it was at the start of
\* the phase through the phase's statistics and best snapshot; during a
\* train phase every batch runs backward and the optimizer step after the
\* forward pass.
C4_OnlyTrainMutates ==
    /\ (pc \in {"batch_loop", "stats"} /\ phase = "val") =>
          /\ weights = phase_start_wts
          /\ i >= 1 => last_ops = <<"zero_grad", "forward">>
    /\ (pc = "save" /\ phase = "val") => weights = phase_start_wts
    /\ (pc \in {"batch_loop", "stats"} /\ phase = "train" /\ i >= 1) =>
          last_ops = <<"zero_grad", "forward", "backward", "step">>

C4_Witness ==
    /\ pc = "save" /\ phase = "val"
    /\ i = 2
    /\ last_ops = <<"zero_grad", "forward">>
    /\ weights = phase_start_wts
    /\ weights = InitialState + 2

\* C5: a call with num_epochs = start_epoch returns empty histories and an
\* empty epoch list and leaves the model's state as it was at the call.
C5_ZeroEpochs ==
    (pc = "done" /\ num_epochs = start_epoch) =>
        /\ \A p \in PhaseSet :
              acc_history[p] = <<>> /\ loss_history[p] = <<>> /\ f1_score[p] = <<>>
        /\ plot_epoch = <<>>
        /\ weights = InitialState
        /\ checkpoints = <<>>

C5_Witness == pc = "done" /\ num_epochs = start_epoch /\ start_epoch = 1

\* C6: every run ends, returning or failing; a run that returns has run
\* exactly the epochs start_epoch, ..., num_epochs - 1 in increasing order,
\* each as a train phase followed by a val phase: plot_epoch lists them and
\* each of the six histories has one entry per epoch.
C6_RunsTheRangeAndTerminates ==
    /\ <>Terminated
    /\ [](pc = "done" =>
            /\ Len(plot_epoch) = Max(num_epochs - start_epoch, 0)
            /\ \A k \in 1..Len(plot_epoch) : plot_epoch[k] = start_epoch + k - 1
            /\ Len(events) = 6 * Len(plot_epoch)
            /\ \A k \in 1..Len(events) : events[k] = ExpectedEvent(start_epoch, k)
            /\ \A p \in PhaseSet :
                  /\ Len(acc_history[p]) = Len(plot_epoch)
                  /\ Len(loss_history[p]) = Len(plot_epoch)
                  /\ Len(f1_score[p]) = Len(plot_epoch))

C6_Witness ==
    /\ pc = "done"
    /\ start_epoch = 1 /\ num_epochs = 3
    /\ plot_epoch = <<1, 2>>
    /\ Len(val_f1_score) = 2 /\ Len(train_loss_history) = 2

\* C7: a call that returns has run num_epochs epochs: num_epochs checkpoints
\* and num_epochs history records.
C7_RunsNumEpochs ==
    pc = "done" =>
        Len(checkpoints) = num_epochs /\ Len(EpochRecords) = num_epochs

\* one checkpoint and one history record for the k-th epoch of the run
CheckpointsOf(e) == {k \in 1..Len(checkpoints) : checkpoints[k].epoch = e}
RecordsOf(e) == {k \in 1..Len(EpochRecords) : EpochRecords[k].model_name = <<"model", e>>}

\* C8: a failing step ends the run: nothing runs after it (no retry, no
\* later epoch), the step leaves the files of the prior epochs as they were,
\* and every epoch before the failing one has exactly one checkpoint and
\* one history record.
C8_FailureAbortsAndKeepsFiles ==
    /\ [](pc = "aborted" =>
            /\ ~ENABLED Next
            /\ epoch_iter >= 1
            /\ \A k \in 1..(epoch_iter - 1) :
                  /\ Cardinality(CheckpointsOf(start_epoch + k - 1)) = 1
                  /\ Cardinality(RecordsOf(start_epoch + k - 1)) = 1)
    /\ [][pc' = "aborted" =>
            /\ checkpoints' = checkpoints
            /\ history_file' = history_file
            /\ epoch_iter' = epoch_iter]_vars

C8_Witness ==
    /\ pc = "aborted"
    /\ epoch_iter = 2
    /\ Len(checkpoints) = 1
    /\ Len(EpochRecords) = 1

\* C9: at the end of a phase with n batches available exactly min(n, 10)
\* were processed, the first ones and in the dataloader's order, and the
\* prediction and ground-truth lists both hold one entry per sample of
\* those batches.
C9_BatchesUpToCap ==
    pc = "stats" =>
        LET n == NumBatches(dsize[phase], batch_size)
            seen == Min(i * batch_size, dsize[phase])
        IN  /\ i = Min(n, IterCap)
            /\ Len(pred_classes[phase]) = seen
            /\ Len(ground_truths[phase]) = seen
            /\ \A j \in 1..seen : ground_truths[phase][j] = Label(j)

C9_Witness ==
    /\ pc = "stats"
    /\ NumBatches(dsize[phase], batch_size) = IterCap + 1
    /\ i = IterCap
    /\ Len(pred_classes[phase]) = IterCap

\* C10: the accuracy appended to the accuracy history (and compared against
\* best_acc) equals the accuracy the metrics calculator derives from the
\* same phase's lists, which is the one written to the history record.
C10_AccuracyAgrees ==
    \A k \in 1..Len(EpochRecords) :
        /\ RatEq(val_acc_history[k], EpochRecords[k].val_accuracy)
        /\ RatEq(train_acc_history[k], EpochRecords[k].train_accuracy)

====
